---- MODULE Spec2Model ----
(***************************************************************************)
(* Credit ledger and payment confirmation of entrevista-api.               *)
(*                                                                         *)
(* The state is the two tables the handlers touch (User.credits and        *)
(* CreditTransaction), the payment intents and events of the gateway, and  *)
(* the request handlers in flight.  A handler is an async function: it    *)
(* runs atomically between two awaits, so every await of a handler is one  *)
(* action, and handlers of different requests interleave at their awaits.  *)
(* A prisma.$transaction block is one database transaction: it commits all *)
(* of its writes or none.                                                  *)
(***************************************************************************)
EXTENDS Integers, Sequences, FiniteSets, TLC

\* ---------------------------------------------------------------- bounds
MaxReq == 2         \* request handlers in flight at once
MaxPurchase == 1    \* PURCHASE rows the ledger may hold
MaxConsume == 2     \* CONSUMPTION rows the ledger may hold
MaxBonusRows == 1   \* BONUS rows the ledger may hold
MaxDuration == 40   \* longest interview the cost is computed for
MaxJobs == 1        \* Job rows one user may hold
MaxRetries == 3     \* largest value of the retries argument of callGeminiAPI

\* ------------------------------------------------------------ identifiers
UserIds == {"u1", "u2"}          \* u2 never exists
JobIds == {"j1", "j2"}           \* j2 never exists (foreign key fails)
Jobs == {"j1"}
ReqIds == 1..MaxReq
\* The prices the payments routes are asked for.
SystemPrices == {"price_meta", "price_off", "price_missing"}
InterviewTypes == {"TEXT", "VOICE", "AVATAR"}
OtherTypes == {"PHONE", "constructor"}
Durations == {30, 31}            \* the durations consume is asked for
BonusAmounts == {1, 2}           \* the bonuses an admin grants
Reasons == {"promo"}
CancelReasons == {"", "too expensive"}

PriceIds == {"price_meta", "price_1234567890", "price_neg", "price_nan",
             "price_zero", "price_unmapped", "price_off", "prod_off", "price_missing"}

VARIABLES
  credits,    \* User.credits of every existing user
  txs,        \* the CreditTransaction table; a row's id is its index
  intents,    \* the gateway's payment intents, by id
  secretSet,  \* whether STRIPE_WEBHOOK_SECRET is configured
  reqs,       \* the request handlers in flight
  last,       \* the reply sent most recently, and the request it answers
  calc,       \* one evaluation of getCreditsCost: its arguments and result
  links,      \* per user id, the number of Job and of Schedule rows of that user
  call        \* one call of callGeminiAPI: its arguments, position and result

vars == <<credits, txs, intents, secretSet, reqs, last, calc, links, call>>

\* ------------------------------------------------------------ cost
\* Own properties of the baseCosts object literal.
baseCosts == [TEXT |-> 1, VOICE |-> 2, AVATAR |-> 3]

\* Property names every object inherits from Object.prototype; a lookup of
\* one of them yields a function or an object, never undefined.
ObjectPrototypeKeys == {"constructor", "toString", "valueOf", "hasOwnProperty"}

\* baseCosts[interviewType] || 1, as a record: num is the numeric value when
\* the lookup gave a number (or fell through to 1), isNum is FALSE when the
\* lookup gave an inherited, truthy, non-numeric value.
BaseCostLookup(interviewType) ==
  IF interviewType \in DOMAIN baseCosts
    THEN [isNum |-> TRUE, num |-> baseCosts[interviewType]]
    ELSE IF interviewType \in ObjectPrototypeKeys
      THEN [isNum |-> FALSE, num |-> 0]
      ELSE [isNum |-> TRUE, num |-> 1]

getCreditsCost(interviewType, durationMinutes) ==
  LET baseCost == BaseCostLookup(interviewType)
  IN IF durationMinutes > 30
       THEN [isNum |-> baseCost.isNum, num |-> baseCost.num * 2]
       ELSE baseCost

\* ------------------------------------------------------------ metadata
\* The JSON metadata of a row is a set of <<key, value>> pairs with at most
\* one pair per key; a null column spreads to the empty object.
Keys(m) == {p[1] : p \in m}

\* { ...old, ...new }: the keys of both, new values winning.
Merge(old, new) == new \cup {p \in old : p[1] \notin Keys(new)}

\* ------------------------------------------------------------ requests
\* A reply: the status code and the fields of the body the handlers send,
\* with the route (kind) and the arguments of the request it answers.
NoResp == [kind |-> "none", userId |-> "", interviewType |-> "", durationMinutes |-> 0,
           priceId |-> "", code |-> 0, required |-> 0, available |-> 0, creditsUsed |-> 0,
           remainingCredits |-> 0, transactionId |-> 0, status |-> ""]

\* A handler in flight: its position (pc) and the locals it carries over its
\* awaits.  snap is the metadata of the row as the handler read it.
Idle == [kind |-> "none", pc |-> "idle", userId |-> "", jobId |-> "",
         interviewType |-> "", durationMinutes |-> 0, cost |-> 0, txId |-> 0, amount |-> 0, snap |-> {}, pi |-> "",
         piStatus |-> "", reason |-> "", priceId |-> ""]

\* A new request is served by the first handler slot that is free.
Free(r) == reqs[r].pc = "idle" /\ \A q \in 1..(r - 1) : reqs[q].pc # "idle"

\* The handler of request r replies and ends.
Reply(r, req, resp) ==
  /\ reqs' = [reqs EXCEPT ![r] = Idle]
  /\ last' = [resp EXCEPT !.kind = req.kind, !.userId = req.userId,
                           !.interviewType = req.interviewType,
                           !.durationMinutes = req.durationMinutes,
                           !.priceId = req.priceId]

\* The handler of request r goes on to its next await.
Goto(r, req) ==
  /\ reqs' = [reqs EXCEPT ![r] = req]
  /\ last' = last

UserExists(u) == u \in DOMAIN credits

\* ------------------------------------------------------------ ledger store
NewRow(type, status, amount, userId, jobId, metadata) ==
  [type |-> type, status |-> status, amount |-> amount, userId |-> userId,
   jobId |-> jobId, paymentId |-> "", metadata |-> metadata]

\* The number of rows of a type.
Rows(type) == Cardinality({i \in 1..Len(txs) : txs[i].type = type})

\* tx.user.update({ data: { credits: { increment: n } } }) (decrement: n < 0).
UserUpdate(cr, u, n) == [cr EXCEPT ![u] = cr[u] + n]

\* The foreign keys of CreditTransaction: the user and, when given, the job.
InsertFails(userId, jobId) == userId \notin DOMAIN credits \/ (jobId # "" /\ jobId \notin Jobs)

\* A plausible slip: the two writes are not in one transaction, so a failed
\* insert leaves the balance updated.
BalanceAndRowTx_NoRollback(u, delta, row) ==
  IF ~UserExists(u)
    THEN [ok |-> FALSE, credits |-> credits, txs |-> txs]
    ELSE IF InsertFails(row.userId, row.jobId)
      THEN [ok |-> FALSE, credits |-> UserUpdate(credits, u, delta), txs |-> txs]
      ELSE [ok |-> TRUE, credits |-> UserUpdate(credits, u, delta), txs |-> Append(txs, row)]

\* prisma.$transaction of consume and add-bonus: update the balance, then
\* insert the row; a statement that throws rolls the whole unit back.
\* The result is the database the unit leaves: [ok, credits, txs].
BalanceAndRowTx(u, delta, row) ==
  IF ~UserExists(u)
    THEN [ok |-> FALSE, credits |-> credits, txs |-> txs]
    ELSE IF InsertFails(row.userId, row.jobId)
      THEN [ok |-> FALSE, credits |-> credits, txs |-> txs]
      ELSE [ok |-> TRUE, credits |-> UserUpdate(credits, u, delta), txs |-> Append(txs, row)]

\* ------------------------------------------------------------ consume
\* A plausible slip: a balance equal to the cost is refused.
Insufficient_OffByOne(balance, creditsCost) == balance <= creditsCost

\* user.credits < creditsCost
Insufficient(balance, creditsCost) == balance < creditsCost

\* A plausible slip: the consumption is recorded with a positive amount.
ConsumptionRow_Positive(userId, jobId, creditsCost) ==
  NewRow("CONSUMPTION", "COMPLETED", creditsCost, userId, jobId, {})

\* The row consume inserts.
ConsumptionRow(userId, jobId, creditsCost) ==
  NewRow("CONSUMPTION", "COMPLETED", -creditsCost, userId, jobId, {})

\* POST /credits/consume up to its first await: the body is validated
\* (enum type, duration >= 1), the cost computed, the user read.
ConsumeCheck(r, userId, jobId, interviewType, durationMinutes) ==
  /\ Free(r)
  /\ LET creditsCost == getCreditsCost(interviewType, durationMinutes).num
         req == [Idle EXCEPT !.kind = "consume", !.userId = userId, !.jobId = jobId,
                             !.interviewType = interviewType,
                             !.durationMinutes = durationMinutes, !.cost = creditsCost]
     IN IF ~UserExists(userId)
          THEN Reply(r, req, [NoResp EXCEPT !.code = 404])
          ELSE IF Insufficient(credits[userId], creditsCost)
            THEN Reply(r, req, [NoResp EXCEPT !.code = 400, !.required = creditsCost,
                                              !.available = credits[userId]])
            ELSE Goto(r, [req EXCEPT !.pc = "consume_tx"])
  /\ UNCHANGED <<credits, txs, intents, secretSet, calc, links, call>>

\* The $transaction of consume and the reply that follows it.
ConsumeTx(r) ==
  /\ reqs[r].pc = "consume_tx"
  /\ Rows("CONSUMPTION") < MaxConsume
  /\ LET req == reqs[r]
         row == ConsumptionRow(req.userId, req.jobId, req.cost)
         db == BalanceAndRowTx(req.userId, -req.cost, row)
     IN /\ credits' = db.credits
        /\ txs' = db.txs
        /\ IF db.ok
             THEN Reply(r, req, [NoResp EXCEPT !.code = 200, !.transactionId = Len(db.txs),
                                               !.creditsUsed = req.cost,
                                               !.remainingCredits = db.credits[req.userId]])
             ELSE Reply(r, req, [NoResp EXCEPT !.code = 500])
  /\ UNCHANGED <<intents, secretSet, calc, links, call>>

\* ------------------------------------------------------------ add-bonus
\* A plausible slip: the row is inserted without the reason in its metadata.
AddBonus_NoReason(r, userId, n, reason) ==
  /\ Free(r)
  /\ Rows("BONUS") < MaxBonusRows
  /\ LET req == [Idle EXCEPT !.kind = "bonus", !.userId = userId, !.amount = n,
                             !.reason = reason]
         row == NewRow("BONUS", "COMPLETED", n, userId, "", {})
         db == BalanceAndRowTx(userId, n, row)
     IN /\ credits' = db.credits
        /\ txs' = db.txs
        /\ IF db.ok
             THEN Reply(r, req, [NoResp EXCEPT !.code = 201, !.transactionId = Len(db.txs),
                                               !.remainingCredits = db.credits[userId]])
             ELSE Reply(r, req, [NoResp EXCEPT !.code = 500])
  /\ UNCHANGED <<intents, secretSet, calc, links, call>>

\* POST /credits/:userId/add-bonus: one $transaction, then the reply.
AddBonus(r, userId, n, reason) ==
  /\ Free(r)
  /\ Rows("BONUS") < MaxBonusRows
  /\ LET req == [Idle EXCEPT !.kind = "bonus", !.userId = userId, !.amount = n,
                             !.reason = reason]
         row == NewRow("BONUS", "COMPLETED", n, userId, "", {<<"reason", reason>>})
         db == BalanceAndRowTx(userId, n, row)
     IN /\ credits' = db.credits
        /\ txs' = db.txs
        /\ IF db.ok
             THEN Reply(r, req, [NoResp EXCEPT !.code = 201, !.transactionId = Len(db.txs),
                                               !.remainingCredits = db.credits[userId]])
             ELSE Reply(r, req, [NoResp EXCEPT !.code = 500])
  /\ UNCHANGED <<intents, secretSet, calc, links, call>>

\* ------------------------------------------------------------ gateway
\* The statuses of a payment intent the model distinguishes.  A declined
\* card leaves the intent at requires_payment_method with last_payment_error
\* set (failed) and emits payment_intent.payment_failed.
PiStatuses == {"requires_payment_method", "requires_action", "succeeded", "canceled"}
PiFinal == {"succeeded", "canceled"}

PiId(i) == "pi_" \o ToString(i)

\* The customer pays, is declined, is asked for authentication, or the intent
\* is cancelled at the gateway.
GatewayAdvance(pi, status, declined) ==
  /\ pi \in DOMAIN intents
  /\ intents[pi].status \notin PiFinal
  /\ declined => status = "requires_payment_method"
  /\ status = intents[pi].status => (declined /\ ~intents[pi].failed)
  /\ intents' = [intents EXCEPT ![pi] = [@ EXCEPT !.status = status,
                                                  !.failed = @ \/ declined]]
  /\ UNCHANGED <<credits, txs, secretSet, reqs, last, calc, links, call>>

\* The events the gateway has emitted for an intent and may (re)deliver.
EventTypes == {"payment_intent.succeeded", "payment_intent.payment_failed",
               "payment_intent.created"}

Emitted(pi, type) ==
  /\ pi \in DOMAIN intents
  /\ type = "payment_intent.succeeded" => intents[pi].status = "succeeded"
  /\ type = "payment_intent.payment_failed" => intents[pi].failed

\* ------------------------------------------------------------ catalog
\* The gateway's prices and their products: metadata.credits of the product
\* as a string (a sequence of characters, empty when absent).
Catalog ==
  [price_meta       |-> [active |-> TRUE, productActive |-> TRUE, credits |-> <<"2">>],
   price_1234567890 |-> [active |-> TRUE, productActive |-> TRUE, credits |-> <<>>],
   price_neg        |-> [active |-> TRUE, productActive |-> TRUE, credits |-> <<"-", "1">>],
   price_nan        |-> [active |-> TRUE, productActive |-> TRUE, credits |-> <<"x">>],
   price_zero       |-> [active |-> TRUE, productActive |-> TRUE, credits |-> <<"0">>],
   price_unmapped   |-> [active |-> TRUE, productActive |-> TRUE, credits |-> <<>>],
   price_off        |-> [active |-> FALSE, productActive |-> TRUE, credits |-> <<"2">>],
   prod_off         |-> [active |-> TRUE, productActive |-> FALSE, credits |-> <<"2">>]]

priceMapping ==
  [price_1SLDj8HVh8rgC6cSrwxsHLhw |-> 10, price_1234567890 |-> 10,
   price_0987654321 |-> 50, price_1122334455 |-> 100]

Digits == <<"0", "1", "2", "3", "4", "5", "6", "7", "8", "9">>
IsDigit(c) == \E i \in 1..10 : Digits[i] = c
DigitVal(c) == (CHOOSE i \in 1..10 : Digits[i] = c) - 1

RECURSIVE DigitsPrefix(_, _, _)
\* The value of the leading digits of s from position i on, acc so far.
DigitsPrefix(s, i, acc) ==
  IF i > Len(s) \/ ~IsDigit(s[i]) THEN acc
  ELSE DigitsPrefix(s, i + 1, acc * 10 + DigitVal(s[i]))

\* parseInt(s): an optional sign, then the leading decimal digits; NaN when
\* there is no digit.
parseInt(s) ==
  LET signed == Len(s) > 0 /\ s[1] \in {"-", "+"}
      first == IF signed THEN 2 ELSE 1
      mag == DigitsPrefix(s, first, 0)
  IN IF first > Len(s) \/ ~IsDigit(s[first])
       THEN [nan |-> TRUE, val |-> 0]
       ELSE [nan |-> FALSE, val |-> IF signed /\ s[1] = "-" THEN -mag ELSE mag]

\* creditsAmount of create-intent: metadata.credits when it is a non-empty
\* string, else priceMapping[priceId] || 0.
CreditsAmount(priceId) ==
  IF Catalog[priceId].credits # <<>>
    THEN parseInt(Catalog[priceId].credits)
    ELSE [nan |-> FALSE,
          val |-> IF priceId \in DOMAIN priceMapping THEN priceMapping[priceId] ELSE 0]

\* ------------------------------------------------------------ create-intent
\* POST /payments/create-intent up to the insert: the user, the price and
\* the product are read and the credits determined.
CreateIntentCheck(r, userId, priceId) ==
  /\ Free(r)
  /\ LET req == [Idle EXCEPT !.kind = "create", !.userId = userId, !.priceId = priceId]
     IN IF ~UserExists(userId) THEN Reply(r, req, [NoResp EXCEPT !.code = 404])
        ELSE IF priceId \notin DOMAIN Catalog THEN Reply(r, req, [NoResp EXCEPT !.code = 500])
        ELSE IF ~Catalog[priceId].active \/ ~Catalog[priceId].productActive
          THEN Reply(r, req, [NoResp EXCEPT !.code = 400])
        ELSE LET creditsAmount == CreditsAmount(priceId)
             IN IF ~creditsAmount.nan /\ creditsAmount.val = 0
                  THEN Reply(r, req, [NoResp EXCEPT !.code = 400])
                  ELSE IF creditsAmount.nan
                    \* an amount of NaN is refused by the insert
                    THEN Reply(r, req, [NoResp EXCEPT !.code = 500])
                    ELSE Goto(r, [req EXCEPT !.pc = "create_insert",
                                             !.amount = creditsAmount.val,
                                             !.snap = {<<"stripePriceId", priceId>>,
                                                       <<"createdAt", "ts">>}])
  /\ UNCHANGED <<credits, txs, intents, secretSet, calc, links, call>>

\* prisma.creditTransaction.create of the PENDING row.
CreateIntentInsert(r) ==
  /\ reqs[r].pc = "create_insert"
  /\ Rows("PURCHASE") < MaxPurchase
  /\ LET req == reqs[r]
         row == NewRow("PURCHASE", "PENDING", req.amount, req.userId, "", req.snap)
     IN IF InsertFails(req.userId, "")
          THEN /\ Reply(r, req, [NoResp EXCEPT !.code = 500])
               /\ txs' = txs
          ELSE /\ txs' = Append(txs, row)
               /\ Goto(r, [req EXCEPT !.pc = "create_charge", !.txId = Len(txs) + 1])
  /\ UNCHANGED <<credits, intents, secretSet, calc, links, call>>

\* stripe.paymentIntents.create: the gateway creates the intent, tagged with
\* the row's id, or the call throws.
CreateIntentCharge(r, gatewayOk) ==
  /\ reqs[r].pc = "create_charge"
  /\ LET req == reqs[r]
         pi == PiId(Cardinality(DOMAIN intents) + 1)
     IN IF gatewayOk
          THEN /\ intents' = [p \in DOMAIN intents \cup {pi} |->
                                IF p = pi THEN [txId |-> req.txId,
                                                status |-> "requires_payment_method",
                                                failed |-> FALSE]
                                ELSE intents[p]]
               /\ Goto(r, [req EXCEPT !.pc = "create_store", !.pi = pi])
          ELSE /\ intents' = intents
               /\ Reply(r, req, [NoResp EXCEPT !.code = 500])
  /\ UNCHANGED <<credits, txs, secretSet, calc, links, call>>

\* A plausible slip: the intent id is kept in the metadata only and the
\* paymentId column is left empty.
CreateIntentStore_NoRef(r) ==
  /\ reqs[r].pc = "create_store"
  /\ LET req == reqs[r]
     IN /\ txs' = [txs EXCEPT ![req.txId] =
                     [@ EXCEPT !.metadata = Merge(req.snap,
                                                  {<<"stripePaymentIntentId", req.pi>>})]]
        /\ Reply(r, req, [NoResp EXCEPT !.code = 201, !.transactionId = req.txId,
                                        !.status = intents[req.pi].status])
  /\ UNCHANGED <<credits, intents, secretSet, calc, links, call>>

\* prisma.creditTransaction.update storing the intent id, then the reply.
\* The metadata written is the spread of the row as it was inserted.
CreateIntentStore(r) ==
  /\ reqs[r].pc = "create_store"
  /\ LET req == reqs[r]
     IN /\ txs' = [txs EXCEPT ![req.txId] =
                     [@ EXCEPT !.paymentId = req.pi,
                               !.metadata = Merge(req.snap,
                                                  {<<"stripePaymentIntentId", req.pi>>})]]
        /\ Reply(r, req, [NoResp EXCEPT !.code = 201, !.transactionId = req.txId,
                                        !.status = intents[req.pi].status])
  /\ UNCHANGED <<credits, intents, secretSet, calc, links, call>>

\* ------------------------------------------------------------ confirm
TxExists(t) == t \in 1..Len(txs)

\* A plausible slip: the two updates are not one unit, and the status update
\* is lost after the balance was incremented.
CompleteTx_BalanceOnly(t, userId, amount, metadata) ==
  IF ~UserExists(userId) \/ ~TxExists(t)
    THEN [ok |-> FALSE, credits |-> credits, txs |-> txs]
    ELSE [ok |-> TRUE, credits |-> UserUpdate(credits, userId, amount), txs |-> txs]

\* The $transaction of confirm and of the succeeded webhook: increment the
\* owner's balance by the amount read earlier, then set the row COMPLETED
\* with the metadata read earlier spread under the new keys.  No statement
\* of the unit looks at the row's current status.
CompleteTx(t, userId, amount, metadata) ==
  IF ~UserExists(userId) \/ ~TxExists(t)
    THEN [ok |-> FALSE, credits |-> credits, txs |-> txs]
    ELSE [ok |-> TRUE, credits |-> UserUpdate(credits, userId, amount),
          txs |-> [txs EXCEPT ![t] = [@ EXCEPT !.status = "COMPLETED",
                                               !.metadata = metadata]]]

\* A plausible slip: the update writes the status and leaves the metadata
\* column as it is.
SetStatus_StatusOnly(t, status, metadata) ==
  [txs EXCEPT ![t] = [@ EXCEPT !.status = status]]

\* prisma.creditTransaction.update({ where: { id }, data: { status, metadata } }).
SetStatus(t, status, metadata) ==
  [txs EXCEPT ![t] = [@ EXCEPT !.status = status, !.metadata = metadata]]

\* POST /payments/confirm, stripe.paymentIntents.retrieve: the status and
\* the metadata of the intent as they are now.
ConfirmRetrieve(r, pi) ==
  /\ Free(r)
  /\ LET req == [Idle EXCEPT !.kind = "confirm", !.pi = pi]
     IN IF pi \notin DOMAIN intents THEN Reply(r, req, [NoResp EXCEPT !.code = 500])
        ELSE IF intents[pi].txId = 0 THEN Reply(r, req, [NoResp EXCEPT !.code = 400])
        ELSE Goto(r, [req EXCEPT !.pc = "confirm_find", !.txId = intents[pi].txId,
                                 !.piStatus = intents[pi].status])
  /\ UNCHANGED <<credits, txs, intents, secretSet, calc, links, call>>

\* A plausible slip: the status of the intent is not looked at, and every
\* PENDING row whose intent was retrieved is completed.
ConfirmFind_NoStatusBranch(r) ==
  /\ reqs[r].pc = "confirm_find"
  /\ LET req == reqs[r]
         t == req.txId
     IN IF ~TxExists(t) THEN Reply(r, req, [NoResp EXCEPT !.code = 404])
        ELSE IF txs[t].status # "PENDING"
          THEN Reply(r, req, [NoResp EXCEPT !.code = 400, !.transactionId = t,
                                            !.status = txs[t].status])
        ELSE Goto(r, [req EXCEPT !.pc = "confirm_tx", !.userId = txs[t].userId,
                                 !.amount = txs[t].amount, !.snap = txs[t].metadata])
  /\ UNCHANGED <<credits, txs, intents, secretSet, calc, links, call>>

\* findUnique of the row, the PENDING check and the branch on the status
\* of the intent.
ConfirmFind(r) ==
  /\ reqs[r].pc = "confirm_find"
  /\ LET req == reqs[r]
         t == req.txId
     IN IF ~TxExists(t) THEN Reply(r, req, [NoResp EXCEPT !.code = 404])
        ELSE IF txs[t].status # "PENDING"
          THEN Reply(r, req, [NoResp EXCEPT !.code = 400, !.transactionId = t,
                                            !.status = txs[t].status])
        ELSE IF req.piStatus = "succeeded"
          THEN Goto(r, [req EXCEPT !.pc = "confirm_tx", !.userId = txs[t].userId,
                                   !.amount = txs[t].amount, !.snap = txs[t].metadata])
        ELSE IF req.piStatus \in {"requires_payment_method", "requires_confirmation"}
          THEN Reply(r, req, [NoResp EXCEPT !.code = 400, !.transactionId = t,
                                            !.status = req.piStatus])
        ELSE Goto(r, [req EXCEPT !.pc = "confirm_fail", !.snap = txs[t].metadata])
  /\ UNCHANGED <<credits, txs, intents, secretSet, calc, links, call>>

\* The $transaction of the succeeded branch and its reply.
ConfirmTx(r) ==
  /\ reqs[r].pc = "confirm_tx"
  /\ LET req == reqs[r]
         db == CompleteTx(req.txId, req.userId, req.amount,
                          Merge(req.snap, {<<"completedAt", "ts">>,
                                           <<"stripePaymentIntentId", req.pi>>,
                                           <<"stripeStatus", req.piStatus>>}))
     IN /\ credits' = db.credits
        /\ txs' = db.txs
        /\ IF db.ok
             THEN Reply(r, req, [NoResp EXCEPT !.code = 200, !.transactionId = req.txId,
                                               !.status = "COMPLETED",
                                               !.remainingCredits = db.credits[req.userId]])
             ELSE Reply(r, req, [NoResp EXCEPT !.code = 500])
  /\ UNCHANGED <<intents, secretSet, calc, links, call>>

\* The update of the failed branch and its reply.
ConfirmFail(r) ==
  /\ reqs[r].pc = "confirm_fail"
  /\ LET req == reqs[r]
     IN /\ txs' = SetStatus(req.txId, "FAILED",
                            Merge(req.snap, {<<"failedAt", "ts">>,
                                             <<"stripePaymentIntentId", req.pi>>,
                                             <<"stripeStatus", req.piStatus>>,
                                             <<"failureReason", "Payment failed">>}))
        /\ Reply(r, req, [NoResp EXCEPT !.code = 400, !.transactionId = req.txId,
                                        !.status = "FAILED"])
  /\ UNCHANGED <<credits, intents, secretSet, calc, links, call>>

\* ------------------------------------------------------------ webhook
\* A plausible slip: the event is parsed from the body without its
\* signature being verified.
WebhookReceive_NoVerify(r, pi, type, sigOk) ==
  /\ Free(r)
  /\ sigOk => Emitted(pi, type)
  /\ LET req == [Idle EXCEPT !.kind = type, !.pi = pi]
     IN IF type = "payment_intent.succeeded"
          THEN IF intents[pi].txId = 0 THEN Reply(r, req, [NoResp EXCEPT !.code = 200])
               ELSE Goto(r, [req EXCEPT !.pc = "hook_find", !.txId = intents[pi].txId,
                                        !.piStatus = "succeeded"])
        ELSE IF type = "payment_intent.payment_failed"
          THEN IF intents[pi].txId = 0 THEN Reply(r, req, [NoResp EXCEPT !.code = 200])
               ELSE Goto(r, [req EXCEPT !.pc = "hook_fail", !.txId = intents[pi].txId,
                                        !.piStatus = "requires_payment_method"])
        ELSE Reply(r, req, [NoResp EXCEPT !.code = 200])
  /\ UNCHANGED <<credits, txs, intents, secretSet, calc, links, call>>

\* POST /payments/webhook up to the first await of the event's handler: the
\* secret, the signature, the switch on the event type.  A signature
\* verifies only on an event the gateway emitted.
WebhookReceive(r, pi, type, sigOk) ==
  /\ Free(r)
  /\ sigOk => Emitted(pi, type)
  /\ LET req == [Idle EXCEPT !.kind = type, !.pi = pi]
     IN IF ~secretSet THEN Reply(r, req, [NoResp EXCEPT !.code = 500])
        ELSE IF ~sigOk THEN Reply(r, req, [NoResp EXCEPT !.code = 400])
        ELSE IF type = "payment_intent.succeeded"
          THEN IF intents[pi].txId = 0 THEN Reply(r, req, [NoResp EXCEPT !.code = 200])
               ELSE Goto(r, [req EXCEPT !.pc = "hook_find", !.txId = intents[pi].txId,
                                        !.piStatus = "succeeded"])
        ELSE IF type = "payment_intent.payment_failed"
          THEN IF intents[pi].txId = 0 THEN Reply(r, req, [NoResp EXCEPT !.code = 200])
               ELSE Goto(r, [req EXCEPT !.pc = "hook_fail", !.txId = intents[pi].txId,
                                        !.piStatus = "requires_payment_method"])
        ELSE Reply(r, req, [NoResp EXCEPT !.code = 200])
  /\ UNCHANGED <<credits, txs, intents, secretSet, calc, links, call>>

\* handlePaymentIntentSucceeded: findUnique of the row and the PENDING check.
SucceededFind(r) ==
  /\ reqs[r].pc = "hook_find"
  /\ LET req == reqs[r]
         t == req.txId
     IN IF ~TxExists(t) \/ txs[t].status # "PENDING"
          THEN Reply(r, req, [NoResp EXCEPT !.code = 200])
          ELSE Goto(r, [req EXCEPT !.pc = "hook_tx", !.userId = txs[t].userId,
                                   !.amount = txs[t].amount, !.snap = txs[t].metadata])
  /\ UNCHANGED <<credits, txs, intents, secretSet, calc, links, call>>

\* handlePaymentIntentSucceeded: the $transaction, then the acknowledgement.
SucceededTx(r) ==
  /\ reqs[r].pc = "hook_tx"
  /\ LET req == reqs[r]
         db == CompleteTx(req.txId, req.userId, req.amount,
                          Merge(req.snap, {<<"webhookProcessedAt", "ts">>,
                                           <<"stripePaymentIntentId", req.pi>>,
                                           <<"stripeStatus", req.piStatus>>}))
     IN /\ credits' = db.credits
        /\ txs' = db.txs
        /\ Reply(r, req, [NoResp EXCEPT !.code = IF db.ok THEN 200 ELSE 500])
  /\ UNCHANGED <<intents, secretSet, calc, links, call>>

\* handlePaymentIntentFailed: one update by id, whatever the row's status,
\* with a metadata object built from the event alone.
FailedUpdate(r) ==
  /\ reqs[r].pc = "hook_fail"
  /\ LET req == reqs[r]
     IN IF ~TxExists(req.txId)
          THEN /\ txs' = txs
               /\ Reply(r, req, [NoResp EXCEPT !.code = 500])
          ELSE /\ txs' = SetStatus(req.txId, "FAILED",
                                   {<<"webhookProcessedAt", "ts">>,
                                    <<"stripePaymentIntentId", req.pi>>,
                                    <<"stripeStatus", req.piStatus>>,
                                    <<"failureReason", "Payment failed">>})
               /\ Reply(r, req, [NoResp EXCEPT !.code = 200])
  /\ UNCHANGED <<credits, intents, secretSet, calc, links, call>>

\* ------------------------------------------------------------ cancel
\* A plausible slip: the status of the row is not looked at.
CancelFind_NoCheck(r, transactionId, reason) ==
  /\ Free(r)
  /\ LET req == [Idle EXCEPT !.kind = "cancel", !.txId = transactionId]
     IN IF ~TxExists(transactionId)
          THEN Reply(r, req, [NoResp EXCEPT !.code = 404, !.transactionId = transactionId])
        ELSE Goto(r, [req EXCEPT !.pc = "cancel_update",
                                 !.snap = txs[transactionId].metadata,
                                 !.reason = IF reason = "" THEN "User cancelled" ELSE reason])
  /\ UNCHANGED <<credits, txs, intents, secretSet, calc, links, call>>

\* POST /payments/cancel: findUnique of the row and the PENDING check.
CancelFind(r, transactionId, reason) ==
  /\ Free(r)
  /\ LET req == [Idle EXCEPT !.kind = "cancel", !.txId = transactionId]
     IN IF ~TxExists(transactionId)
          THEN Reply(r, req, [NoResp EXCEPT !.code = 404, !.transactionId = transactionId])
        ELSE IF txs[transactionId].status # "PENDING"
          THEN Reply(r, req, [NoResp EXCEPT !.code = 400, !.transactionId = transactionId,
                                            !.status = txs[transactionId].status])
        ELSE Goto(r, [req EXCEPT !.pc = "cancel_update",
                                 !.snap = txs[transactionId].metadata,
                                 !.reason = IF reason = "" THEN "User cancelled" ELSE reason])
  /\ UNCHANGED <<credits, txs, intents, secretSet, calc, links, call>>

\* A plausible slip: cancelling removes the row instead of marking it.
CancelUpdate_Delete(r) ==
  /\ reqs[r].pc = "cancel_update"
  /\ LET req == reqs[r]
     IN /\ txs' = [i \in 1..(Len(txs) - 1) |->
                     IF i < req.txId THEN txs[i] ELSE txs[i + 1]]
        /\ Reply(r, req, [NoResp EXCEPT !.code = 200, !.transactionId = req.txId,
                                        !.status = "CANCELLED"])
  /\ UNCHANGED <<credits, intents, secretSet, calc, links, call>>

\* The update to CANCELLED and the reply.
CancelUpdate(r) ==
  /\ reqs[r].pc = "cancel_update"
  /\ LET req == reqs[r]
     IN /\ txs' = SetStatus(req.txId, "CANCELLED",
                            Merge(req.snap, {<<"cancelledAt", "ts">>,
                                             <<"cancellationReason", req.reason>>}))
        /\ Reply(r, req, [NoResp EXCEPT !.code = 200, !.transactionId = req.txId,
                                        !.status = "CANCELLED"])
  /\ UNCHANGED <<credits, intents, secretSet, calc, links, call>>

\* ------------------------------------------------------------ users, jobs
\* Whether a row of CreditTransaction, Job or Schedule holds the user id:
\* each of the three foreign keys on User is ON DELETE RESTRICT.
Referenced(id) ==
  \/ \E t \in 1..Len(txs) : txs[t].userId = id
  \/ links[id].jobs > 0
  \/ links[id].schedules > 0

\* POST /jobs: prisma.job.create; the insert throws when the user does not
\* exist (Job_userId_fkey) and the error is not caught by the handler.
CreateJob(r, user_id) ==
  /\ Free(r)
  /\ links[user_id].jobs < MaxJobs
  /\ LET req == [Idle EXCEPT !.kind = "job", !.userId = user_id]
     IN IF UserExists(user_id)
          THEN /\ links' = [links EXCEPT ![user_id].jobs = @ + 1]
               /\ Reply(r, req, [NoResp EXCEPT !.code = 201])
          ELSE /\ links' = links
               /\ Reply(r, req, [NoResp EXCEPT !.code = 500])
  /\ UNCHANGED <<credits, txs, intents, secretSet, calc, call>>

\* DELETE /users/:id, the two counts and the 409 reply.
DeleteCount(r, id) ==
  /\ Free(r)
  /\ LET req == [Idle EXCEPT !.kind = "delete", !.userId = id]
         jobsCount == links[id].jobs
         schedulesCount == links[id].schedules
     IN IF jobsCount > 0 \/ schedulesCount > 0
          THEN Reply(r, req, [NoResp EXCEPT !.code = 409])
          ELSE Goto(r, [req EXCEPT !.pc = "delete_user"])
  /\ UNCHANGED <<credits, txs, intents, secretSet, calc, links, call>>

\* A plausible slip: the foreign keys cascade, or are missing, and the
\* delete removes a user whatever rows hold its id.
DeleteUser_NoRestrict(r) ==
  /\ reqs[r].pc = "delete_user"
  /\ LET req == reqs[r]
         id == req.userId
     IN IF ~UserExists(id)
          THEN credits' = credits /\ Reply(r, req, [NoResp EXCEPT !.code = 404])
          ELSE /\ credits' = [u \in DOMAIN credits \ {id} |-> credits[u]]
               /\ Reply(r, req, [NoResp EXCEPT !.code = 204])
  /\ UNCHANGED <<txs, intents, secretSet, calc, links, call>>

\* prisma.user.delete and the reply: P2025 when the user does not exist
\* (404), a foreign-key error when a row still holds its id (500), else the
\* user is gone (204).
DeleteUser(r) ==
  /\ reqs[r].pc = "delete_user"
  /\ LET req == reqs[r]
         id == req.userId
     IN IF ~UserExists(id)
          THEN credits' = credits /\ Reply(r, req, [NoResp EXCEPT !.code = 404])
        ELSE IF Referenced(id)
          THEN credits' = credits /\ Reply(r, req, [NoResp EXCEPT !.code = 500])
        ELSE /\ credits' = [u \in DOMAIN credits \ {id} |-> credits[u]]
             /\ Reply(r, req, [NoResp EXCEPT !.code = 204])
  /\ UNCHANGED <<txs, intents, secretSet, calc, links, call>>

\* ------------------------------------------------------------ callGeminiAPI
\* What one fetch of the model endpoint may give: a text, a body without
\* text, a status in 400..499, a status of 500 or more, or a thrown error.
FetchOutcomes == {"text", "empty", "4xx", "5xx", "network"}

\* responses: what each fetch made so far gave, in order.
NoCall == [pc |-> "none", keySet |-> TRUE, retries |-> 0, i |-> 0, responses |-> <<>>,
           result |-> ""]

\* The catch block of the loop body: the last round rethrows, every other
\* round waits and goes on to the next round.
GeminiCatch(c) ==
  IF c.i < c.retries - 1
    THEN [c EXCEPT !.i = @ + 1]
    ELSE [c EXCEPT !.pc = "done", !.result = "error"]

\* callGeminiAPI up to its loop: without GEMINI_API_KEY it throws at once.
GeminiStart ==
  /\ call.pc = "call"
  /\ call' = IF call.keySet THEN [call EXCEPT !.pc = "loop", !.i = 0]
             ELSE [call EXCEPT !.pc = "done", !.result = "error"]
  /\ UNCHANGED <<credits, txs, intents, secretSet, reqs, last, calc, links>>

\* One round of the loop: the loop condition, the fetch, the branch on the
\* response, and the catch block around all of it.  A status of 500 or more
\* before the last round waits and continues; every error thrown in the
\* try block, the one for a status below 500 included, lands in the catch.
GeminiRound(outcome) ==
  /\ call.pc = "loop"
  /\ IF call.i >= call.retries
       THEN call' = [call EXCEPT !.pc = "done", !.result = "error"]
       ELSE LET c == [call EXCEPT !.responses = Append(@, outcome)]
            IN call' = IF outcome = "text"
                         THEN [c EXCEPT !.pc = "done", !.result = "text"]
                       ELSE IF outcome = "5xx" /\ c.i < c.retries - 1
                         THEN [c EXCEPT !.i = @ + 1]
                       ELSE GeminiCatch(c)
  /\ UNCHANGED <<credits, txs, intents, secretSet, reqs, last, calc, links>>

\* ------------------------------------------------------------ cost, alone
\* One call of getCreditsCost on the arguments drawn at the start.
ComputeCost ==
  /\ calc.pc = "call"
  /\ calc' = [calc EXCEPT !.pc = "returned",
                          !.result = getCreditsCost(calc.interviewType, calc.durationMinutes)]
  /\ UNCHANGED <<credits, txs, intents, secretSet, reqs, last, links, call>>

NoCalc == [pc |-> "none", interviewType |-> "", durationMinutes |-> 0,
           result |-> [isNum |-> TRUE, num |-> 0]]

\* ------------------------------------------------------------ system
\* The database after the migrations and one sign-up: one user, no credits,
\* no transactions; the gateway holds no intent of this service.
Init ==
  /\ credits = [u \in {"u1"} |-> 0]
  /\ txs = <<>>
  /\ intents = [p \in {} |-> [txId |-> 0, status |-> "", failed |-> FALSE]]
  /\ secretSet = TRUE
  /\ reqs = [r \in ReqIds |-> Idle]
  /\ last = NoResp
  /\ calc = NoCalc
  /\ links = [u \in UserIds |-> [jobs |-> IF u = "u1" THEN Cardinality(Jobs) ELSE 0,
                                  schedules |-> 0]]
  /\ call = NoCall

\* The credits routes, served by the handler slots R.
CreditsStep(R) ==
  \/ \E r \in R, u \in UserIds, j \in JobIds, t \in InterviewTypes, d \in Durations :
       ConsumeCheck(r, u, j, t, d)
  \/ \E r \in R : ConsumeTx(r)
  \/ \E r \in R, u \in UserIds, n \in BonusAmounts, why \in Reasons : AddBonus(r, u, n, why)

\* POST /payments/create-intent, served by the handler slots R and asked
\* for the prices P.
CreateIntentStep(R, P) ==
  \/ \E r \in R, u \in UserIds, p \in P : CreateIntentCheck(r, u, p)
  \/ \E r \in R : CreateIntentInsert(r)
  \/ \E r \in R, ok \in BOOLEAN : CreateIntentCharge(r, ok)
  \/ \E r \in R : CreateIntentStore(r)

\* The gateway, on the intents it holds.
GatewayStep ==
  \E pi \in DOMAIN intents, s \in PiStatuses, declined \in BOOLEAN :
    GatewayAdvance(pi, s, declined)

\* POST /payments/webhook, served by the handler slots R.
WebhookStep(R) ==
  \/ \E r \in R, pi \in DOMAIN intents, type \in EventTypes, sigOk \in BOOLEAN :
       WebhookReceive(r, pi, type, sigOk)
  \/ \E r \in R : SucceededFind(r)
  \/ \E r \in R : SucceededTx(r)
  \/ \E r \in R : FailedUpdate(r)

\* The payments routes, served by the handler slots R, and the gateway.
PaymentsStep(R) ==
  \/ CreateIntentStep(R, SystemPrices)
  \/ GatewayStep
  \/ \E r \in R, pi \in DOMAIN intents \cup {"pi_none"} : ConfirmRetrieve(r, pi)
  \/ \E r \in R : ConfirmFind(r)
  \/ \E r \in R : ConfirmTx(r)
  \/ \E r \in R : ConfirmFail(r)
  \/ WebhookStep(R)
  \/ \E r \in R, t \in 1..(Len(txs) + 1), why \in CancelReasons : CancelFind(r, t, why)
  \/ \E r \in R : CancelUpdate(r)

NextCredits == CreditsStep(ReqIds)
NextPayments == PaymentsStep(ReqIds)
NextSequential == PaymentsStep({1})
Next == NextCredits \/ NextPayments

\* The whole service.
Spec == Init /\ [][Next]_vars

\* The credits routes alone, requests overlapping.
SpecCredits == Init /\ [][NextCredits]_vars

\* The payments routes alone, with the gateway, requests overlapping.
SpecPayments == Init /\ [][NextPayments]_vars

\* The payments routes with one request at a time: a request arrives only
\* after the handler of the one before it has replied.
SpecSequential == Init /\ [][NextSequential]_vars

\* The transactionId in the metadata of an intent of the gateway account that
\* this database did not create: absent (0), or the id of a row of another
\* database.
ForeignTxIds == {0, 9}

\* The service as deployed: STRIPE_WEBHOOK_SECRET is set or not, and the
\* gateway account holds one intent this database did not create, declined
\* once and then paid, whose events are delivered to the webhook as well.
InitWebhook ==
  /\ Init!1 /\ Init!2 /\ Init!5 /\ Init!6 /\ Init!7 /\ Init!8 /\ Init!9
  /\ secretSet \in BOOLEAN
  /\ \E t \in ForeignTxIds :
       intents = [p \in {"pi_ext"} |-> [txId |-> t, status |-> "succeeded", failed |-> TRUE]]

\* Purchases paid at the gateway and reported by webhook alone, one request
\* at a time, in such a deployment.
NextWebhook == CreateIntentStep({1}, SystemPrices) \/ GatewayStep \/ WebhookStep({1})
SpecWebhook == InitWebhook /\ [][NextWebhook]_vars

\* The create-intent route alone, requests overlapping, asked for every
\* price of the catalog and for one the gateway does not know.
NextCreateIntent == CreateIntentStep(ReqIds, PriceIds)
SpecCreateIntent == Init /\ [][NextCreateIntent]_vars

\* getCreditsCost alone, on every type and duration of the bounded sets.
InitCost ==
  /\ Init!1 /\ Init!2 /\ Init!3 /\ Init!4 /\ Init!5 /\ Init!6 /\ Init!8 /\ Init!9
  /\ \E t \in InterviewTypes \cup OtherTypes, d \in 1..MaxDuration :
       calc = [NoCalc EXCEPT !.pc = "call", !.interviewType = t, !.durationMinutes = d]

SpecCost == InitCost /\ [][ComputeCost]_vars

\* The users and jobs routes beside the bonus route, requests overlapping,
\* from a store where the user may hold a job, a schedule, both or neither.
InitUsers ==
  /\ Init!1 /\ Init!2 /\ Init!3 /\ Init!4 /\ Init!5 /\ Init!6 /\ Init!7 /\ Init!9
  /\ \E j \in 0..MaxJobs, s \in 0..1 :
       links = [u \in UserIds |-> [jobs |-> IF u = "u1" THEN j ELSE 0,
                                    schedules |-> IF u = "u1" THEN s ELSE 0]]

NextUsers ==
  \/ \E r \in ReqIds, u \in UserIds, n \in BonusAmounts, why \in Reasons : AddBonus(r, u, n, why)
  \/ \E r \in ReqIds, u \in UserIds : CreateJob(r, u)
  \/ \E r \in ReqIds, u \in UserIds : DeleteCount(r, u)
  \/ \E r \in ReqIds : DeleteUser(r)

SpecUsers == InitUsers /\ [][NextUsers]_vars

\* callGeminiAPI alone, for every retries argument up to MaxRetries, with
\* and without the API key.
InitGemini ==
  /\ Init!1 /\ Init!2 /\ Init!3 /\ Init!4 /\ Init!5 /\ Init!6 /\ Init!7 /\ Init!8
  /\ \E n \in 0..MaxRetries, k \in BOOLEAN :
       call = [NoCall EXCEPT !.pc = "call", !.retries = n, !.keySet = k]

NextGemini == GeminiStart \/ \E o \in FetchOutcomes : GeminiRound(o)

SpecGemini == InitGemini /\ [][NextGemini]_vars

\* ================================================================ claims
RECURSIVE SumAmounts(_)
\* The sum of amount over the rows whose ids are in S.
SumAmounts(S) ==
  IF S = {} THEN 0
  ELSE LET t == CHOOSE x \in S : TRUE
       IN txs[t].amount + SumAmounts(S \ {t})

\* The handler of request r takes a step.
Steps(r) == reqs'[r] # reqs[r]

\* C1: every account's balance is >= 0 in every reachable state.
C1_CreditsNeverNegative == \A u \in DOMAIN credits : credits[u] >= 0

\* C2: when a succeeded webhook has been acknowledged, every account has
\* been credited at most once for each of its purchases: its balance does
\* not exceed the sum of the amounts of its PURCHASE rows (the payments
\* routes credit nothing else).
C2_PurchaseCreditedOnce ==
  (last.kind = "payment_intent.succeeded" /\ last.code = 200) =>
  \A u \in DOMAIN credits :
    credits[u] <= SumAmounts({t \in 1..Len(txs) :
                               txs[t].userId = u /\ txs[t].type = "PURCHASE"})

\* C3: a row that is COMPLETED, FAILED or CANCELLED keeps its status in
\* every later step.
C3_TerminalStatusKept ==
  [][\A t \in 1..Len(txs) : txs[t].status # "PENDING" => txs'[t].status = txs[t].status]_vars

\* C4: a step of a confirm or webhook handler whose row is not PENDING when
\* the step is taken leaves the ledger and the balances as they are.
C4_NoOpOnProcessedRow ==
  [][\A r \in ReqIds :
       (/\ Steps(r)
        /\ reqs[r].kind \in {"confirm", "payment_intent.succeeded",
                             "payment_intent.payment_failed"}
        /\ TxExists(reqs[r].txId)
        /\ txs[reqs[r].txId].status # "PENDING")
       => (txs' = txs /\ credits' = credits)]_vars

\* C5: every account's balance equals the sum of the amounts of its
\* COMPLETED rows.
C5_BalanceMatchesLedger ==
  \A u \in DOMAIN credits :
    credits[u] = SumAmounts({t \in 1..Len(txs) :
                              txs[t].userId = u /\ txs[t].status = "COMPLETED"})

\* C6: the $transaction of consume debits an account only when the balance
\* it debits covers the cost.
C6_DebitOnlyWhenCovered ==
  [][\A r \in ReqIds :
       (reqs[r].pc = "consume_tx" /\ Steps(r) /\ credits' # credits)
       => credits[reqs[r].userId] >= reqs[r].cost]_vars

\* C7: the $transaction of consume changes the balance and inserts the
\* CONSUMPTION row together or does neither; when it fails (reply 500) the
\* balances and the ledger are what they were before it.
C7_ConsumeAllOrNothing ==
  [][\A r \in ReqIds :
       (reqs[r].pc = "consume_tx" /\ Steps(r))
       => /\ (credits' # credits) <=> (txs' # txs)
          /\ last'.code # 200 => (credits' = credits /\ txs' = txs)
          /\ last'.code = 200 => (credits' # credits /\ Len(txs') = Len(txs) + 1)]_vars

C7_Witness ==
  /\ last.kind = "consume" /\ last.code = 500
  /\ credits["u1"] >= getCreditsCost(last.interviewType, last.durationMinutes).num

\* C8: a consume request is rejected with 404 exactly when the account does
\* not exist and with 400 exactly when the account's balance is below the
\* cost; the 400 reply carries required = cost and available = the balance;
\* a rejected request changes no balance and inserts no row.
C8_RejectedConsume ==
  [][/\ \* the request is answered at once: no handler is left in flight
        (reqs' = reqs /\ last' # last /\ last'.kind = "consume") =>
          LET u == last'.userId
              cost == getCreditsCost(last'.interviewType, last'.durationMinutes).num
          IN /\ credits' = credits /\ txs' = txs
             /\ last'.code \in {404, 400}
             /\ last'.code = 404 <=> u \notin DOMAIN credits
             /\ last'.code = 400 =>
                  /\ credits[u] < cost
                  /\ last'.required = cost /\ last'.available = credits[u]
     /\ \* the request goes on to the debit
        \A r \in ReqIds :
          (reqs[r].pc = "idle" /\ reqs'[r].pc = "consume_tx") =>
            /\ reqs'[r].userId \in DOMAIN credits
            /\ credits[reqs'[r].userId] >=
                 getCreditsCost(reqs'[r].interviewType, reqs'[r].durationMinutes).num
            /\ credits' = credits /\ txs' = txs]_vars

C8_Witness ==
  /\ last.kind = "consume" /\ last.code = 400
  /\ last.required = 2 /\ last.available = 1

\* C9: a consume that succeeds (reply 200) decrements the account's balance
\* by getCreditsCost(type, duration), appends one COMPLETED CONSUMPTION row
\* of amount -cost with the job of the request, and replies creditsUsed =
\* cost and remainingCredits = the balance after the debit.
C9_ConsumeEffect ==
  [][\A r \in ReqIds :
       (reqs[r].pc = "consume_tx" /\ Steps(r) /\ last'.code = 200)
       => LET u == reqs[r].userId
              cost == getCreditsCost(reqs[r].interviewType, reqs[r].durationMinutes).num
          IN /\ credits' = [credits EXCEPT ![u] = @ - cost]
             /\ txs' = Append(txs, [type |-> "CONSUMPTION", status |-> "COMPLETED",
                                    amount |-> -cost, userId |-> u,
                                    jobId |-> reqs[r].jobId, paymentId |-> "",
                                    metadata |-> {}])
             /\ last'.creditsUsed = cost
             /\ last'.remainingCredits = credits'[u]
             /\ last'.transactionId = Len(txs')]_vars

C9_Witness ==
  /\ last.kind = "consume" /\ last.code = 200 /\ last.creditsUsed = 2
  /\ last.remainingCredits = 0
  /\ Len(txs) = 2 /\ txs[2].type = "CONSUMPTION" /\ txs[2].amount = -2

OtherRowsKept(t) ==
  /\ Len(txs') = Len(txs)
  /\ \A i \in 1..Len(txs) : i # t => txs'[i] = txs[i]

\* C11: a create-intent request that succeeds (reply 201) has inserted one
\* row of type PURCHASE, status PENDING and amount = the credits of the
\* price's product, and stores the id of the gateway's intent (the one
\* tagged with the row's id) as the row's paymentId; no step of the handler
\* inserts another row, changes another row or changes a balance.
C11_CreateIntentEffect ==
  [][/\ \A r \in ReqIds :
          ((reqs[r].kind = "create" \/ reqs'[r].kind = "create") /\ Steps(r)) =>
            /\ credits' = credits
            /\ reqs[r].pc \in {"idle", "create_charge"} => txs' = txs
            /\ reqs[r].pc = "create_insert" =>
                 \/ txs' = txs /\ last'.code = 500
                 \/ /\ reqs'[r].txId = Len(txs) + 1
                    /\ txs' = Append(txs,
                         [type |-> "PURCHASE", status |-> "PENDING",
                          amount |-> CreditsAmount(reqs[r].priceId).val,
                          userId |-> reqs[r].userId, jobId |-> "", paymentId |-> "",
                          metadata |-> {<<"stripePriceId", reqs[r].priceId>>,
                                        <<"createdAt", "ts">>}])
            /\ reqs[r].pc = "create_store" =>
                 LET t == reqs[r].txId
                     pi == reqs[r].pi
                 IN /\ last'.code = 201 /\ last'.transactionId = t
                    /\ OtherRowsKept(t)
                    /\ pi \in DOMAIN intents /\ intents[pi].txId = t
                    /\ txs'[t].paymentId = pi
                    /\ txs'[t].type = "PURCHASE" /\ txs'[t].status = txs[t].status
                    /\ txs'[t].amount = CreditsAmount(reqs[r].priceId).val
                    /\ txs'[t].userId = reqs[r].userId
            /\ (reqs'[r].pc = "idle" /\ reqs[r].pc # "create_store") => last'.code # 201
     /\ \* a request answered at once
        (reqs' = reqs /\ last' # last /\ last'.kind = "create") =>
          (txs' = txs /\ credits' = credits /\ last'.code # 201)]_vars

C11_Witness ==
  /\ last.kind = "create" /\ last.code = 201 /\ last.priceId = "price_1234567890"
  /\ TxExists(last.transactionId)
  /\ txs[last.transactionId].amount = 10
  /\ txs[last.transactionId].paymentId = "pi_1"
  /\ credits["u1"] = 0

\* C12: a PENDING PURCHASE row without a paymentId exists only while the
\* create-intent handler that inserted it is still in flight; once the
\* request has ended, with the gateway having failed or not, no such row
\* remains.
C12_NoOrphanPendingRow ==
  \A t \in 1..Len(txs) :
    (txs[t].type = "PURCHASE" /\ txs[t].status = "PENDING" /\ txs[t].paymentId = "")
    => \E r \in ReqIds : reqs[r].kind = "create" /\ reqs[r].txId = t

\* The account does not exist, or the price or its product is missing or
\* inactive.
Unavailable(userId, priceId) ==
  \/ userId \notin DOMAIN credits
  \/ priceId \notin DOMAIN Catalog
  \/ ~Catalog[priceId].active
  \/ ~Catalog[priceId].productActive

\* C13: a create-intent request for an account that does not exist or for
\* a price or product that is missing or inactive is answered NotFound (404)
\* and inserts no row; it never goes on to the insert.
C13_CreateIntentNotFound ==
  [][/\ (reqs' = reqs /\ last' # last /\ last'.kind = "create"
         /\ Unavailable(last'.userId, last'.priceId))
        => (last'.code = 404 /\ txs' = txs)
     /\ \A r \in ReqIds :
          (reqs[r].pc = "idle" /\ reqs'[r].pc = "create_insert")
          => ~Unavailable(reqs'[r].userId, reqs'[r].priceId)]_vars

\* C14: when the gateway reported success and the row is PENDING, confirm
\* and the succeeded webhook go on to their $transaction, and the step of
\* that $transaction on a PENDING row increments the owner's balance by
\* exactly the row's amount and sets the row COMPLETED, both in the one
\* step, or (reply 500) changes neither.
C14_SuccessAppliedAtomically ==
  [][\A r \in ReqIds :
       (Steps(r) /\ TxExists(reqs[r].txId) /\ txs[reqs[r].txId].status = "PENDING") =>
         LET t == reqs[r].txId
             u == txs[t].userId
         IN /\ (reqs[r].pc = "confirm_find" /\ reqs[r].piStatus = "succeeded")
                 => (reqs'[r].pc = "confirm_tx" /\ txs' = txs /\ credits' = credits)
            /\ reqs[r].pc = "hook_find"
                 => (reqs'[r].pc = "hook_tx" /\ txs' = txs /\ credits' = credits)
            /\ reqs[r].pc \in {"confirm_tx", "hook_tx"} =>
                 \/ /\ credits' = [credits EXCEPT ![u] = @ + txs[t].amount]
                    /\ txs'[t].status = "COMPLETED"
                    /\ txs'[t].amount = txs[t].amount /\ txs'[t].userId = u
                    /\ OtherRowsKept(t)
                    /\ last'.code = 200
                 \/ (credits' = credits /\ txs' = txs /\ last'.code = 500)]_vars

C14_Witness ==
  /\ last.kind = "confirm" /\ last.code = 200 /\ last.remainingCredits = 2
  /\ TxExists(last.transactionId)
  /\ txs[last.transactionId].status = "COMPLETED"
  /\ credits["u1"] = 2

\* C15: when the gateway reported a failure and the row is PENDING (confirm
\* read an intent the gateway cancelled; a payment_failed event was
\* verified), the handler goes on to its update, and that update on a
\* PENDING row sets the row FAILED, records a failureReason in its metadata
\* and changes no other row and no balance.
C15_FailureSetsFailed ==
  [][\A r \in ReqIds :
       (Steps(r) /\ TxExists(reqs[r].txId) /\ txs[reqs[r].txId].status = "PENDING") =>
         LET t == reqs[r].txId
         IN /\ (reqs[r].pc = "confirm_find" /\ reqs[r].piStatus = "canceled")
                 => (reqs'[r].pc = "confirm_fail" /\ txs' = txs /\ credits' = credits)
            /\ reqs[r].pc \in {"confirm_fail", "hook_fail"} =>
                 /\ txs'[t].status = "FAILED"
                 /\ "failureReason" \in Keys(txs'[t].metadata)
                 /\ txs'[t].amount = txs[t].amount /\ txs'[t].userId = txs[t].userId
                 /\ OtherRowsKept(t)
                 /\ credits' = credits
                 /\ last'.code = (IF reqs[r].pc = "confirm_fail" THEN 400 ELSE 200)]_vars

C15_Witness ==
  /\ last.kind = "confirm" /\ last.code = 400 /\ last.status = "FAILED"
  /\ TxExists(last.transactionId)
  /\ txs[last.transactionId].status = "FAILED"
  /\ <<"stripeStatus", "canceled">> \in txs[last.transactionId].metadata
  /\ credits["u1"] = 0

\* C16: a confirm call that read a gateway status that is not terminal
\* (the charge still awaits a payment method or a further action of the
\* customer) changes no row and no balance in any of its steps, and neither
\* does a webhook for an event type other than succeeded and payment_failed.
C16_NonTerminalNoChange ==
  [][/\ \A r \in ReqIds :
          (reqs[r].kind = "confirm" /\ Steps(r) /\ reqs[r].piStatus \in PiStatuses \ PiFinal)
          => (txs' = txs /\ credits' = credits)
     /\ \A r \in ReqIds :
          (Steps(r) /\ (reqs[r].kind = "payment_intent.created"
                        \/ reqs'[r].kind = "payment_intent.created"))
          => (txs' = txs /\ credits' = credits)
     /\ (last' # last /\ last'.kind = "payment_intent.created")
          => (txs' = txs /\ credits' = credits)]_vars

\* C17: a cancel request on a PENDING row goes on to its update, which sets
\* the row CANCELLED, records the reason (the one given, else "User
\* cancelled") under cancellationReason and changes no other row and no
\* balance; a cancel request on a row that is
\* COMPLETED, FAILED or CANCELLED is answered InvalidState (400) with the
\* row's status and changes nothing, and so is a confirm call whose row is
\* CANCELLED.
C17_CancelOnlyPending ==
  [][/\ \A r \in ReqIds :
          \* the request goes on to the update: its row was PENDING
          /\ (reqs[r].pc = "idle" /\ reqs'[r].pc = "cancel_update") =>
               /\ TxExists(reqs'[r].txId) /\ txs[reqs'[r].txId].status = "PENDING"
               /\ reqs'[r].reason \in (CancelReasons \ {""}) \cup {"User cancelled"}
               /\ txs' = txs /\ credits' = credits
          /\ (reqs[r].pc = "cancel_update" /\ Steps(r)) =>
               LET t == reqs[r].txId
               IN /\ txs'[t].status = "CANCELLED"
                  /\ <<"cancellationReason", reqs[r].reason>> \in txs'[t].metadata
                  /\ txs'[t].amount = txs[t].amount /\ txs'[t].userId = txs[t].userId
                  /\ OtherRowsKept(t)
                  /\ credits' = credits
                  /\ last'.code = 200 /\ last'.status = "CANCELLED"
          /\ (reqs[r].pc = "confirm_find" /\ Steps(r) /\ TxExists(reqs[r].txId)
              /\ txs[reqs[r].txId].status = "CANCELLED") =>
               /\ reqs'[r].pc = "idle" /\ last'.code = 400 /\ last'.status = "CANCELLED"
               /\ txs' = txs /\ credits' = credits
     /\ \* the request is answered at once: its row was missing or terminal
        (reqs' = reqs /\ last' # last /\ last'.kind = "cancel") =>
          /\ txs' = txs /\ credits' = credits
          /\ last'.code \in {404, 400}
          /\ last'.code = 404 <=> ~TxExists(last'.transactionId)
          /\ last'.code = 400 =>
               /\ txs[last'.transactionId].status \in {"COMPLETED", "FAILED", "CANCELLED"}
               /\ last'.status = txs[last'.transactionId].status]_vars

C17_Witness ==
  /\ last.kind = "cancel" /\ last.code = 400 /\ last.status = "CANCELLED"
  /\ TxExists(last.transactionId)
  /\ <<"cancellationReason", "too expensive">> \in txs[last.transactionId].metadata
  /\ credits["u1"] = 0

\* C18: when a cancel request that raced a confirm call or a webhook has
\* succeeded (reply 200), exactly one terminal transition took effect: the
\* row is CANCELLED and its amount was not credited, that is, the owner's
\* balance is the sum of the amounts of the owner's COMPLETED rows (the
\* cancel did not overwrite a completion that had been applied).
C18_CancelRaceOneTransition ==
  (last.kind = "cancel" /\ last.code = 200) =>
    LET t == last.transactionId
        u == txs[t].userId
    IN /\ txs[t].status = "CANCELLED"
       /\ credits[u] = SumAmounts({i \in 1..Len(txs) :
                                    txs[i].userId = u /\ txs[i].status = "COMPLETED"})

\* C19: a webhook request whose signature does not verify, or that arrives
\* when no secret is configured, is rejected at once (400, and 500 without a
\* secret): no handler goes on to look a row up, and no row and no balance
\* changes.
C19_UnverifiedWebhookRejected ==
  [][\A r \in ReqIds, pi \in DOMAIN intents, type \in EventTypes, sigOk \in BOOLEAN :
       ((~sigOk \/ ~secretSet) /\ (last'.kind = type \/ reqs'[r].kind = type)
        /\ WebhookReceive(r, pi, type, sigOk)) =>
         /\ reqs' = reqs
         /\ txs' = txs /\ credits' = credits
         /\ last'.code = (IF secretSet THEN 400 ELSE 500)]_vars

C19_Witness ==
  /\ secretSet
  /\ last.kind = "payment_intent.succeeded" /\ last.code = 400
  /\ \E t \in 1..Len(txs) : txs[t].status = "PENDING" /\ txs[t].paymentId # ""
  /\ credits["u1"] = 0

\* C20: every verified event is acknowledged with 200: the handler of a
\* webhook request that passed the signature check replies 200 whenever it
\* ends, whether it processed the event or ignored it (other event type, no
\* transactionId, no such row, row already terminal).
C20_VerifiedEventAcknowledged ==
  [][/\ \A r \in ReqIds :
          (reqs[r].kind \in EventTypes /\ Steps(r) /\ reqs'[r].pc = "idle")
          => last'.code = 200
     /\ \A r \in ReqIds, pi \in DOMAIN intents, type \in EventTypes :
          (secretSet /\ reqs' = reqs /\ last'.kind = type /\ WebhookReceive(r, pi, type, TRUE))
          => last'.code = 200]_vars

\* C21: every step keeps, for every row, every metadata key the row held
\* before the step: the set of metadata keys of a row only grows.
C21_MetadataKeysOnlyGrow ==
  [][\A t \in 1..Len(txs) :
       Keys(txs[t].metadata) \subseteq Keys(txs'[t].metadata)]_vars

\* C22: an add-bonus request for an existing account increments the balance
\* by exactly the credits given and appends exactly one row of type BONUS,
\* status COMPLETED, amount = +credits and metadata.reason = the reason
\* given, in the one step, and replies 201 with the balance after the
\* increment; for an account that does not exist it replies 500 and leaves
\* the balances and the ledger as they were.
C22_AddBonusEffect ==
  [][\A r \in ReqIds, u \in UserIds, n \in BonusAmounts, why \in Reasons :
       (last'.kind = "bonus" /\ last'.userId = u /\ AddBonus(r, u, n, why)) =>
         IF u \in DOMAIN credits
           THEN /\ credits' = [credits EXCEPT ![u] = @ + n]
                /\ txs' = Append(txs, [type |-> "BONUS", status |-> "COMPLETED",
                                       amount |-> n, userId |-> u, jobId |-> "",
                                       paymentId |-> "",
                                       metadata |-> {<<"reason", why>>}])
                /\ last'.code = 201
                /\ last'.remainingCredits = credits[u] + n
                /\ last'.transactionId = Len(txs) + 1
           ELSE /\ credits' = credits /\ txs' = txs
                /\ last'.code = 500]_vars

C22_Witness ==
  /\ last.kind = "bonus" /\ last.code = 201 /\ last.remainingCredits = 2
  /\ TxExists(last.transactionId)
  /\ txs[last.transactionId].type = "BONUS"
  /\ txs[last.transactionId].amount = 2
  /\ credits["u1"] = 2

\* The terminal gateway outcome a handler in flight is applying: "success",
\* "failure", or "none" when it applies neither.
Outcome(req) ==
  IF req.kind = "confirm"
    THEN (IF req.piStatus = "succeeded" THEN "success"
          ELSE IF req.piStatus = "canceled" THEN "failure" ELSE "none")
  ELSE IF req.kind = "payment_intent.succeeded" THEN "success"
  ELSE IF req.kind = "payment_intent.payment_failed" THEN "failure"
  ELSE "none"

\* The one transition both paths are to apply to a row of the given status.
MappedStatus(status, outcome) ==
  IF status # "PENDING" THEN status
  ELSE IF outcome = "success" THEN "COMPLETED" ELSE "FAILED"

\* C23: with one request at a time, a confirm call and a webhook handler
\* that apply the same terminal gateway outcome to a row leave it in the
\* same status and leave the same balance: whichever path it is, the
\* handler changes nothing before its last step, and when it ends a PENDING
\* row is COMPLETED with its amount credited (success) or FAILED with no
\* balance change (failure), and a row that was not PENDING and the
\* balances are as they were.
C23_SameTransitionOnBothPaths ==
  [][\A r \in ReqIds :
       (Steps(r) /\ reqs[r].pc # "idle" /\ Outcome(reqs[r]) # "none"
        /\ TxExists(reqs[r].txId)) =>
         LET t == reqs[r].txId
             u == txs[t].userId
             credited == txs[t].status = "PENDING" /\ Outcome(reqs[r]) = "success"
         IN IF reqs'[r].pc = "idle"
              THEN /\ txs'[t].status = MappedStatus(txs[t].status, Outcome(reqs[r]))
                   /\ credits' = [credits EXCEPT
                                    ![u] = @ + (IF credited THEN txs[t].amount ELSE 0)]
              ELSE txs' = txs /\ credits' = credits]_vars

\* C24: the amount, the type and the owner of a row are fixed when it is
\* inserted: every step keeps them for every row that exists, and no step
\* removes a row.
C24_RowIdentityFixed ==
  [][/\ Len(txs') >= Len(txs)
     /\ \A t \in 1..Len(txs) :
          /\ txs'[t].amount = txs[t].amount
          /\ txs'[t].type = txs[t].type
          /\ txs'[t].userId = txs[t].userId]_vars

\* A row that was stored with its intent, then cancelled, and on which the
\* failed webhook acted afterwards, still with its amount, type and owner.
C24_Witness ==
  \E t \in 1..Len(txs) :
    /\ txs[t].type = "PURCHASE" /\ txs[t].amount = 2 /\ txs[t].userId = "u1"
    /\ txs[t].status = "FAILED"
    /\ txs[t].paymentId # ""
    /\ last.kind = "payment_intent.payment_failed"

\* C25: the sign of a row's amount matches its type: PURCHASE and BONUS
\* rows have a positive amount, CONSUMPTION rows a negative one, whatever
\* credits value the catalog supplies for the price.
C25_AmountSignMatchesType ==
  \A t \in 1..Len(txs) :
    /\ txs[t].type \in {"PURCHASE", "BONUS"} => txs[t].amount > 0
    /\ txs[t].type = "CONSUMPTION" => txs[t].amount < 0

\* C26: an account is never deleted while a ledger transaction, a job or a
\* schedule references it: no step removes such an account, and a
\* DELETE /users/:id handler acting on it leaves the accounts, the balances,
\* the transactions and the jobs and schedules as they are.
C26_ReferencedAccountKept ==
  [][/\ \A u \in DOMAIN credits : Referenced(u) => u \in DOMAIN credits'
     /\ \A r \in ReqIds :
          (reqs[r].pc = "delete_user" /\ Steps(r) /\ Referenced(reqs[r].userId)) =>
            credits' = credits /\ txs' = txs /\ links' = links]_vars

\* The delete of an account that holds a ledger row and neither job nor
\* schedule was refused by the store, and the account is there.
C26_Witness ==
  /\ last.kind = "delete" /\ last.userId = "u1" /\ last.code = 500
  /\ "u1" \in DOMAIN credits /\ credits["u1"] > 0
  /\ \E t \in 1..Len(txs) : txs[t].userId = "u1"
  /\ links["u1"].jobs = 0 /\ links["u1"].schedules = 0

\* C27: a PURCHASE row is inserted not COMPLETED, and every step that makes
\* a PURCHASE row COMPLETED is the step of a confirm call that read the
\* status succeeded from the gateway, or of the handler of a verified
\* payment_intent.succeeded event; either way the intent it acts for names
\* the row and has succeeded at the gateway.
C27_CompletedOnlyOnSuccess ==
  [][\A t \in 1..Len(txs') :
       (/\ txs'[t].type = "PURCHASE" /\ txs'[t].status = "COMPLETED"
        /\ (t > Len(txs) \/ txs[t].status # "COMPLETED")) =>
         \E r \in ReqIds :
           /\ Steps(r) /\ reqs[r].txId = t
           /\ \/ reqs[r].kind = "confirm" /\ reqs[r].pc = "confirm_tx"
              \/ reqs[r].kind = "payment_intent.succeeded" /\ reqs[r].pc = "hook_tx"
                 /\ secretSet
           /\ reqs[r].piStatus = "succeeded"
           /\ reqs[r].pi \in DOMAIN intents
           /\ intents[reqs[r].pi].txId = t
           /\ intents[reqs[r].pi].status = "succeeded"]_vars

\* A PURCHASE row completed by the handler of a succeeded event.
C27_Witness ==
  \E t \in 1..Len(txs) :
    /\ txs[t].type = "PURCHASE" /\ txs[t].status = "COMPLETED"
    /\ <<"webhookProcessedAt", "ts">> \in txs[t].metadata
    /\ last.kind = "payment_intent.succeeded" /\ last.code = 200

\* C28: once the charge has succeeded, the delivery of the succeeded event
\* that the endpoint acknowledges leaves the row COMPLETED, unless the row
\* was cancelled; a payment_failed event handled earlier does not prevent
\* it.  (With redelivery until acknowledgement, this is what makes the row
\* eventually COMPLETED: after the acknowledgement nothing is delivered
\* again.)
C28_AcknowledgedSuccessIsCredited ==
  [][\A r \in ReqIds :
       (/\ reqs[r].kind = "payment_intent.succeeded" /\ reqs[r].pc # "idle"
        /\ reqs'[r].pc = "idle" /\ last'.code = 200
        /\ TxExists(reqs[r].txId)
        /\ txs[reqs[r].txId].status # "CANCELLED") =>
         txs'[reqs[r].txId].status = "COMPLETED"]_vars

\* C29: a confirm call or a webhook handler acting for intent c completes a
\* PURCHASE row only when the row's stored paymentId is c, so that every
\* COMPLETED PURCHASE row holds the reference of the intent whose success
\* credited it, also when the handler runs between createIntent's insert
\* and the update that stores the reference.
C29_CompletedRowHoldsItsIntent ==
  [][\A r \in ReqIds :
       (/\ Steps(r) /\ reqs[r].pc \in {"confirm_tx", "hook_tx"}
        /\ TxExists(reqs[r].txId)
        /\ txs[reqs[r].txId].type = "PURCHASE"
        /\ txs'[reqs[r].txId].status = "COMPLETED") =>
         /\ txs[reqs[r].txId].paymentId = reqs[r].pi
         /\ txs'[reqs[r].txId].paymentId = reqs[r].pi]_vars

\* C30: callGeminiAPI makes at most `retries` requests, and it makes
\* another request only after a status of 500 or more or a thrown network
\* error, never after a status in 400..499.
C30_BoundedRetriesOnServerErrorsOnly ==
  /\ Len(call.responses) <= call.retries
  /\ \A k \in 1..(Len(call.responses) - 1) : call.responses[k] \in {"5xx", "network"}

====
